---- MODULE Spec2Model ----
(***************************************************************************)
(* ai-limits: two status-bar entry points, codexbar.main (one account) and  *)
(* limitsbar.main (Codex and Claude side by side).  The module models       *)
(*   - one run of either entry point, step by step between its external     *)
(*     events (file reads and writes, network requests, the emitted line);  *)
(*   - the write protocol of _write_auth on a small file system with        *)
(*     inodes, so that concurrent invocations and crashes can be replayed.  *)
(* Percentages are carried in hundredths of a percent point (45.5 % is      *)
(* 4550), times in seconds, expiresAt in milliseconds.                      *)
(***************************************************************************)
EXTENDS Integers, Sequences, FiniteSets, TLC

VARIABLES
    tool,        \* which entry point runs: "codexbar", "limitsbar", or "none"
    pc,          \* position of the run inside main
    clock,       \* _now_utc(), in seconds
    authFile,    \* content at the Codex credential path
    authFile0,   \* its content when the run started
    claudeFile,  \* content at the Claude credential path
    auth,        \* in-memory Codex record (auth / tokens of main)
    refreshed,   \* the token set the refresh request returned
    codex,       \* result of the Codex pipeline (codex, codex_err)
    claude,      \* result of the Claude pipeline (claude, claude_err)
    log,         \* external events of the run, in order
    emitted,     \* payloads written to standard output
    checkedAt,   \* the clock value _needs_refresh / the expiry check read
    inodes,      \* file system: inode -> sequence of chunks
    dir,         \* file system: [path |-> inode, tmp |-> inode or 0]
    wr,          \* per invocation of _write_auth: [pc, fd, off]
    rd,          \* a reader of the credential path: [pc, fd, got]
    lens,        \* number of chunks of each serialised record
    active       \* the invocations that run _write_auth

runVars == <<tool, pc, clock, authFile, authFile0, claudeFile, auth, refreshed,
             codex, claude, log, emitted, checkedAt>>
fsVars == <<inodes, dir, wr, rd, lens, active>>
vars == <<tool, pc, clock, authFile, authFile0, claudeFile, auth, refreshed,
          codex, claude, log, emitted, checkedAt, inodes, dir, wr, rd, lens, active>>

----------------------------------------------------------------------------
(* Bounds *)

\* most chunks (write calls) one serialised record takes
MaxChunks == 3
\* most seconds the clock advances during one run
MaxTick == 1

----------------------------------------------------------------------------
(* Program constants and Python values *)

AUTH_REFRESH_INTERVAL_SECONDS == 8 * 24 * 60 * 60

\* Python None in a numeric position
NoneN == -1000000
\* Python None / a missing key in a string position
NoneS == "<None>"
\* a key the server's JSON object does not have
Omitted == "<omitted>"

Truthy(s) == s # NoneS /\ s # Omitted /\ s # ""

----------------------------------------------------------------------------
(* The file system under _write_auth                                       *)
(* Records are serialised as chunks <<r, k>>: chunk k of record r.  Record  *)
(* 0 is the record on disk before any invocation; record w is what          *)
(* invocation w dumps.  <<-1, 0>> is a hole left by a write past the end.   *)

Writers == {1, 2}
\* inode 1 is the credential file, inode 2 a temporary file an earlier, killed
\* invocation may have left behind, inode 2 + w the file invocation w creates
TmpInodeOf(w) == 2 + w
Inodes == 1 .. 4
Hole == <<-1, 0>>

Rec(r) == [k \in 1 .. lens[r] |-> <<r, k>>]

\* write(2) of one chunk at offset off (0-based) of a file holding content
WriteAt(content, off, chunk) ==
    [i \in 1 .. (IF off + 1 > Len(content) THEN off + 1 ELSE Len(content)) |->
        IF i = off + 1 THEN chunk
        ELSE IF i <= Len(content) THEN content[i]
        ELSE Hole]

\* the name _write_auth opens for writing: path + ".tmp"
OpenTargetInPlace == "path"
OpenTarget == "tmp"

\* open(tmp, "w"): create the file, or truncate the one that is there
Open(w) ==
    /\ w \in active
    /\ wr[w].pc = "start"
    /\ IF dir[OpenTarget] = 0
       THEN /\ dir' = [dir EXCEPT ![OpenTarget] = TmpInodeOf(w)]
            /\ inodes' = [inodes EXCEPT ![TmpInodeOf(w)] = <<>>]
            /\ wr' = [wr EXCEPT ![w] = [pc |-> "writing", fd |-> TmpInodeOf(w), off |-> 0]]
       ELSE /\ dir' = dir
            /\ inodes' = [inodes EXCEPT ![dir[OpenTarget]] = <<>>]
            /\ wr' = [wr EXCEPT ![w] = [pc |-> "writing", fd |-> dir[OpenTarget], off |-> 0]]
    /\ UNCHANGED <<rd, lens, active>>
    /\ UNCHANGED runVars

\* json.dump(data, f, ...): the buffered writer hands the text over chunk by chunk
WriteChunk(w) ==
    /\ w \in active
    /\ wr[w].pc = "writing"
    /\ wr[w].off < lens[w]
    /\ inodes' = [inodes EXCEPT ![wr[w].fd] = WriteAt(@, wr[w].off, <<w, wr[w].off + 1>>)]
    /\ wr' = [wr EXCEPT ![w].off = @ + 1]
    /\ UNCHANGED <<dir, rd, lens, active>>
    /\ UNCHANGED runVars

\* leaving the with block closes the temporary file
Close(w) ==
    /\ w \in active
    /\ wr[w].pc = "writing"
    /\ wr[w].off = lens[w]
    /\ wr' = [wr EXCEPT ![w].pc = "closed"]
    /\ UNCHANGED <<inodes, dir, rd, lens, active>>
    /\ UNCHANGED runVars

\* os.replace(tmp, path): FileNotFoundError when tmp is gone
Replace(w) ==
    /\ w \in active
    /\ wr[w].pc = "closed"
    /\ IF dir["tmp"] = 0
       THEN /\ wr' = [wr EXCEPT ![w].pc = "failed"]
            /\ dir' = dir
       ELSE /\ wr' = [wr EXCEPT ![w].pc = "done"]
            /\ dir' = [path |-> dir["tmp"], tmp |-> 0]
    /\ UNCHANGED <<inodes, rd, lens, active>>
    /\ UNCHANGED runVars

\* the process is killed while inside _write_auth
Crash(w) ==
    /\ w \in active
    /\ wr[w].pc \in {"writing", "closed"}
    /\ wr' = [wr EXCEPT ![w].pc = "crashed"]
    /\ UNCHANGED <<inodes, dir, rd, lens, active>>
    /\ UNCHANGED runVars

\* another process runs _read_auth: open(path, "r") ...
ReaderOpen ==
    /\ rd.pc = "idle"
    /\ rd' = [pc |-> "reading", fd |-> dir["path"], got |-> <<>>]
    /\ UNCHANGED <<inodes, dir, wr, lens, active>>
    /\ UNCHANGED runVars

\* ... json.load(f) reads the open file to its end
ReaderRead ==
    /\ rd.pc = "reading"
    /\ Len(rd.got) < Len(inodes[rd.fd])
    /\ rd' = [rd EXCEPT !.got = Append(@, inodes[rd.fd][Len(rd.got) + 1])]
    /\ UNCHANGED <<inodes, dir, wr, lens, active>>
    /\ UNCHANGED runVars

ReaderEOF ==
    /\ rd.pc = "reading"
    /\ Len(rd.got) >= Len(inodes[rd.fd])
    /\ rd' = [rd EXCEPT !.pc = "done"]
    /\ UNCHANGED <<inodes, dir, wr, lens, active>>
    /\ UNCHANGED runVars

----------------------------------------------------------------------------
(* Values of one run                                                        *)

Tools == {"codexbar", "limitsbar"}

\* the instant the run starts, and the stored timestamps relative to it
Now0 == 10 * 24 * 60 * 60
Days(n) == n * 24 * 60 * 60

\* last_refresh as stored: the key missing, a string fromisoformat rejects, a
\* timestamp without offset, or a UTC timestamp ("...Z") of t seconds
NoStamp == [kind |-> "absent", t |-> 0]
BadStamp == [kind |-> "bad", t |-> 0]
NaiveStamp(t) == [kind |-> "naive", t |-> t]
UtcStamp(t) == [kind |-> "utc", t |-> t]

StoredStamps ==
    {NoStamp, BadStamp, NaiveStamp(Now0 - Days(9))}
    \cup {UtcStamp(Now0 - a) : a \in {Days(7), Days(8), Days(8) + 1, Days(9)}}

\* the Codex credential record; extra stands for the fields the tool does not know
AuthRecords ==
    [access_token : {NoneS, "at0"}, refresh_token : {NoneS, "rt0"},
     id_token : {NoneS, "it0"}, account_id : {"acct"},
     last_refresh : StoredStamps, extra : {"x"}]

NoRecord ==
    [access_token |-> NoneS, refresh_token |-> NoneS, id_token |-> NoneS,
     account_id |-> NoneS, last_refresh |-> NoStamp, extra |-> NoneS]

AuthFiles ==
    {[kind |-> k, rec |-> NoRecord] : k \in {"missing", "malformed", "notobject"}}
    \cup {[kind |-> "object", rec |-> r] : r \in AuthRecords}

\* the Claude credential record (claudeAiOauth); expiresAt in milliseconds
ClaudeRecords ==
    [accessToken : {NoneS, "ct"},
     scopes : {{"user:inference"}, {"user:inference", "user:profile"}},
     expiresAt : {NoneN, 0, Now0 * 1000, Now0 * 1000 + 500, (Now0 + MaxTick) * 1000 + 500}]

NoClaudeRecord == [accessToken |-> NoneS, scopes |-> {}, expiresAt |-> NoneN]

ClaudeFiles ==
    {[kind |-> k, rec |-> NoClaudeRecord] : k \in {"missing", "malformed", "notobject"}}
    \cup {[kind |-> "object", rec |-> r] : r \in ClaudeRecords}

\* what a request can come back with: no connection, a non-2xx status, a body
\* that is not JSON, a JSON array, or a JSON object
NoBody == [access_token |-> Omitted, refresh_token |-> Omitted, id_token |-> Omitted]
NoWindows == [a |-> NoneN, b |-> NoneN]
Failures(body) ==
    {[kind |-> "neterr", code |-> 0, body |-> body],
     [kind |-> "http", code |-> 401, body |-> body],
     [kind |-> "notjson", code |-> 0, body |-> body],
     [kind |-> "array", code |-> 0, body |-> body]}

\* the token set the refresh endpoint returns: every field, none, or some, and
\* an id_token that is there but empty
RefreshBody(a, r, i) == [access_token |-> a, refresh_token |-> r, id_token |-> i]
RefreshBodies ==
    {RefreshBody("at1", "rt1", "it1"), RefreshBody(Omitted, Omitted, Omitted),
     RefreshBody("at1", Omitted, Omitted), RefreshBody(Omitted, "rt1", "it1"),
     RefreshBody("at1", "rt1", "")}
RefreshOutcomes ==
    Failures(NoBody) \cup {[kind |-> "object", code |-> 200, body |-> b] : b \in RefreshBodies}

\* used_percent of the primary (a) and secondary (b) window; NoneN when the
\* window, rate_limit or the field is missing
CodexPercents == {NoneN, -500, 4550, 7000, 9000, 15000}
CodexSecondaryPercents == {NoneN, 7000}
UsageOutcomes ==
    Failures(NoWindows)
    \cup {[kind |-> "object", code |-> 200, body |-> [a |-> x, b |-> y]] :
            x \in CodexPercents, y \in CodexSecondaryPercents}

\* utilization of five_hour (a) and seven_day (b), in hundredths: 42 is 0.42
ClaudeUtilizations == {NoneN, -5, 42, 250, 8800, 15000}
ClaudeSevenDayUtilizations == {NoneN, 9050}
ClaudeOutcomes ==
    Failures(NoWindows)
    \cup {[kind |-> "object", code |-> 200, body |-> [a |-> x, b |-> y]] :
            x \in ClaudeUtilizations, y \in ClaudeSevenDayUtilizations}

\* exceptions and error messages (the backquotes of the messages are left out)
Exc(type, code) == [type |-> type, code |-> code]
Err(msg, code, detail) == [msg |-> msg, code |-> code, detail |-> detail]
NoErr == Err("", 0, "")

\* what a request raises for an outcome: urlopen, json.loads, or the first
\* .get on a body that is no object
RaisedBy(outcome) ==
    CASE outcome.kind = "neterr" -> Exc("URLError", 0)
      [] outcome.kind = "http" -> Exc("HTTPError", outcome.code)
      [] outcome.kind = "notjson" -> Exc("JSONDecodeError", 0)
      [] outcome.kind = "array" -> Exc("AttributeError", 0)
      [] OTHER -> Exc("none", 0)

----------------------------------------------------------------------------
(* Pure functions of the program                                            *)

\* _parse_iso8601: None for a missing or unparseable value
_parse_iso8601(value) ==
    IF value.kind \in {"absent", "bad"} THEN [kind |-> "none", t |-> 0] ELSE value

_needs_refresh_inclusive(last_refresh, now) ==
    IF last_refresh.kind = "none" THEN TRUE
    ELSE now - last_refresh.t >= AUTH_REFRESH_INTERVAL_SECONDS
_needs_refresh(last_refresh, now) ==
    IF last_refresh.kind = "none" THEN TRUE
    ELSE now - last_refresh.t > AUTH_REFRESH_INTERVAL_SECONDS

\* subtracting a timestamp without offset from _now_utc() raises TypeError
NeedsRefreshRaises(last_refresh) == last_refresh.kind = "naive"

\* int(x) of a number given in hundredths: truncation toward zero
int(h) == IF h >= 0 THEN h \div 100 ELSE -((-h) \div 100)

\* round(x) of a positive number given in hundredths: half to even
round(h) ==
    LET q == h \div 100
        r == h % 100
    IN  IF r < 50 THEN q
        ELSE IF r > 50 THEN q + 1
        ELSE IF q % 2 = 0 THEN q ELSE q + 1

_class_for(percent) ==
    IF percent = NoneN THEN "unknown"
    ELSE IF percent >= 9000 THEN "critical"
    ELSE IF percent >= 7000 THEN "warn"
    ELSE "ok"

\* _claude_usage_percent: a whole percentage, returned here in hundredths
_claude_usage_percent(utilization) ==
    IF utilization = NoneN THEN NoneN
    ELSE IF utilization <= 100 THEN utilization * 100
    ELSE round(utilization) * 100

\* max(percents) if percents else None; the loop of codexbar.main does the same
TopPercent(percents) ==
    LET known == {p \in percents : p # NoneN}
    IN  IF known = {} THEN NoneN
        ELSE CHOOSE m \in known : \A p \in known : p <= m

\* "--" (NoneN) or f"{int(p)}%"
PercentText(p) == IF p = NoneN THEN NoneN ELSE int(p)

\* lines 246-251: the refreshed record
MergeTokensNoFallback(rec, body, now) ==
    [rec EXCEPT !.access_token = body.access_token,
                !.refresh_token = body.refresh_token,
                !.id_token = body.id_token,
                !.last_refresh = UtcStamp(now)]
MergeTokens(rec, body, now) ==
    [rec EXCEPT
        !.access_token = IF body.access_token = Omitted THEN @ ELSE body.access_token,
        !.refresh_token = IF body.refresh_token = Omitted THEN @ ELSE body.refresh_token,
        !.id_token = IF Truthy(body.id_token) THEN body.id_token ELSE @,
        !.last_refresh = UtcStamp(now)]

\* _refresh_tokens / _fetch_usage: raise, or return the parsed body
RequestSwallowingErrors(outcome, nobody) ==
    IF outcome.kind = "object"
    THEN [raised |-> FALSE, exc |-> Exc("none", 0), body |-> outcome.body]
    ELSE [raised |-> FALSE, exc |-> Exc("none", 0), body |-> nobody]
Request(outcome, nobody) ==
    IF outcome.kind = "object"
    THEN [raised |-> FALSE, exc |-> Exc("none", 0), body |-> outcome.body]
    ELSE [raised |-> TRUE, exc |-> RaisedBy(outcome), body |-> nobody]

\* the except clauses around the Codex pipeline
CodexExcept(t, exc) ==
    IF t = "codexbar"
    THEN IF exc.type = "HTTPError" THEN Err("HTTP error", exc.code, "")
         ELSE Err("Error", 0, exc.type)
    ELSE IF exc.type = "FileNotFoundError"
         THEN Err("Codex auth.json not found (run codex login)", 0, "")
         ELSE IF exc.type = "HTTPError" THEN Err("Codex HTTP error", exc.code, "")
         ELSE Err("Codex error", 0, exc.type)

\* a missing access token: raise RuntimeError (codexbar), return the message (limitsbar)
MissingAccessToken(t) ==
    IF t = "codexbar" THEN CodexExcept(t, Exc("RuntimeError", 0))
    ELSE Err("Codex auth.json missing access token", 0, "")

\* the local checks of _get_claude_status, in order; NoErr when all pass
ClaudeLocalCheckExpiryFirst(cred, now) ==
    IF ~Truthy(cred.accessToken) THEN Err("Claude access token missing", 0, "")
    ELSE IF cred.expiresAt # NoneN /\ cred.expiresAt > 0 /\ now * 1000 >= cred.expiresAt
    THEN Err("Claude token expired (run claude login)", 0, "")
    ELSE IF "user:profile" \notin cred.scopes
    THEN Err("Claude token missing user:profile scope", 0, "")
    ELSE NoErr
ClaudeLocalCheck(cred, now) ==
    IF ~Truthy(cred.accessToken) THEN Err("Claude access token missing", 0, "")
    ELSE IF "user:profile" \notin cred.scopes
    THEN Err("Claude token missing user:profile scope", 0, "")
    ELSE IF cred.expiresAt # NoneN /\ cred.expiresAt > 0 /\ now * 1000 >= cred.expiresAt
    THEN Err("Claude token expired (run claude login)", 0, "")
    ELSE NoErr

----------------------------------------------------------------------------
(* One run of codexbar.main or limitsbar.main                               *)

\* an external event: a request with its bearer or refresh token, the account
\* header and how it came back, or the write of the credential file; at is the
\* clock when it happened
Ev(op, token, account, status, at) ==
    [op |-> op, token |-> token, account |-> account, status |-> status, at |-> at]

Pending == [state |-> "pending", a |-> NoneN, b |-> NoneN, err |-> NoErr]
Ok(a, b) == [state |-> "ok", a |-> a, b |-> b, err |-> NoErr]
Fail(err) == [state |-> "fail", a |-> NoneN, b |-> NoneN, err |-> err]

\* where main goes on once the Codex pipeline has its result
AfterCodex(t) == IF t = "codexbar" THEN "present" ELSE "claude_read"

\* _read_auth, the token fields, and the decision to refresh (now is _now_utc())
ReadOutcome(f, t, now) ==
    LET fail(exc) == [next |-> AfterCodex(t), codex |-> Fail(CodexExcept(t, exc)),
                      auth |-> NoRecord]
    IN  CASE f.kind = "missing" -> fail(Exc("FileNotFoundError", 0))
          [] f.kind = "malformed" -> fail(Exc("JSONDecodeError", 0))
          [] f.kind = "notobject" -> fail(Exc("AttributeError", 0))
          [] OTHER ->
                IF ~Truthy(f.rec.access_token)
                THEN [next |-> AfterCodex(t), codex |-> Fail(MissingAccessToken(t)),
                      auth |-> f.rec]
                ELSE IF ~Truthy(f.rec.refresh_token)
                THEN [next |-> "codex_usage", codex |-> Pending, auth |-> f.rec]
                ELSE IF NeedsRefreshRaises(_parse_iso8601(f.rec.last_refresh))
                THEN [next |-> AfterCodex(t),
                      codex |-> Fail(CodexExcept(t, Exc("TypeError", 0))),
                      auth |-> f.rec]
                ELSE IF _needs_refresh(_parse_iso8601(f.rec.last_refresh), now)
                THEN [next |-> "codex_refresh", codex |-> Pending, auth |-> f.rec]
                ELSE [next |-> "codex_usage", codex |-> Pending, auth |-> f.rec]

ReadAuth ==
    /\ pc = "codex_read"
    /\ LET r == ReadOutcome(authFile, tool, clock)
       IN  /\ pc' = r.next
           /\ codex' = r.codex
           /\ auth' = r.auth
    /\ checkedAt' = [checkedAt EXCEPT !.codex = clock]
    /\ UNCHANGED <<tool, clock, authFile, authFile0, claudeFile, refreshed, claude, log,
                   emitted>>
    /\ UNCHANGED fsVars

\* lines 245-253: the refresh request; on success merge, stamp and _write_auth
RefreshTokens(outcome) ==
    /\ pc = "codex_refresh"
    /\ LET r == Request(outcome, NoBody)
           sent == Ev("refresh", auth.refresh_token, NoneS, outcome.kind, clock)
           merged == MergeTokens(auth, r.body, clock)
       IN  IF r.raised
           THEN /\ log' = Append(log, sent)
                /\ codex' = Fail(CodexExcept(tool, r.exc))
                /\ pc' = AfterCodex(tool)
                /\ UNCHANGED <<auth, authFile, refreshed>>
           ELSE /\ refreshed' = r.body
                /\ log' = log \o <<sent, Ev("write", merged.access_token, NoneS, "ok", clock)>>
                /\ auth' = merged
                /\ authFile' = [kind |-> "object", rec |-> merged]
                /\ pc' = "codex_usage"
                /\ UNCHANGED codex
    /\ UNCHANGED <<tool, clock, authFile0, claudeFile, claude, emitted, checkedAt>>
    /\ UNCHANGED fsVars

\* lines 255-265: the usage request with the access token now in memory
FetchUsage(outcome) ==
    /\ pc = "codex_usage"
    /\ LET r == Request(outcome, NoWindows)
       IN  /\ log' = Append(log, Ev("usage", auth.access_token, auth.account_id, outcome.kind,
                                clock))
           /\ codex' = IF r.raised THEN Fail(CodexExcept(tool, r.exc))
                       ELSE Ok(r.body.a, r.body.b)
    /\ pc' = AfterCodex(tool)
    /\ UNCHANGED <<tool, clock, authFile, authFile0, claudeFile, auth, refreshed, claude,
                   emitted, checkedAt>>
    /\ UNCHANGED fsVars

\* _get_claude_status up to the request: only FileNotFoundError is caught
ClaudeRead ==
    /\ pc = "claude_read"
    /\ checkedAt' = [checkedAt EXCEPT !.claude = clock]
    /\ CASE claudeFile.kind = "missing" ->
                /\ claude' = Fail(Err("Claude credentials not found (run claude login)", 0, ""))
                /\ pc' = "present"
         [] claudeFile.kind \in {"malformed", "notobject"} ->
                /\ claude' = claude
                /\ pc' = "escaped"
         [] OTHER ->
                LET e == ClaudeLocalCheck(claudeFile.rec, clock)
                IN  IF e = NoErr
                    THEN /\ claude' = claude
                         /\ pc' = "claude_usage"
                    ELSE /\ claude' = Fail(e)
                         /\ pc' = "present"
    /\ UNCHANGED <<tool, clock, authFile, authFile0, claudeFile, auth, refreshed, codex, log,
                   emitted>>
    /\ UNCHANGED fsVars

\* lines 198-230: the Claude usage request; data.get is outside the try
ClaudeFetch(outcome) ==
    /\ pc = "claude_usage"
    /\ log' = Append(log, Ev("claude_usage", claudeFile.rec.accessToken, NoneS, outcome.kind,
                         clock))
    /\ CASE outcome.kind = "http" ->
                /\ claude' = Fail(Err("Claude HTTP error", outcome.code, ""))
                /\ pc' = "present"
         [] outcome.kind \in {"neterr", "notjson"} ->
                /\ claude' = Fail(Err("Claude error", 0, RaisedBy(outcome).type))
                /\ pc' = "present"
         [] outcome.kind = "array" ->
                /\ claude' = claude
                /\ pc' = "escaped"
         [] OTHER ->
                LET s == _claude_usage_percent(outcome.body.a)
                    w == _claude_usage_percent(outcome.body.b)
                IN  /\ claude' = IF s = NoneN /\ w = NoneN
                                 THEN Fail(Err("Claude usage unavailable", 0, ""))
                                 ELSE Ok(s, w)
                    /\ pc' = "present"
    /\ UNCHANGED <<tool, clock, authFile, authFile0, claudeFile, auth, refreshed, codex,
                   emitted, checkedAt>>
    /\ UNCHANGED fsVars

\* a segment of text (the two shown percentages) and of the tooltip
NoSeg == [state |-> "none", a |-> NoneN, b |-> NoneN, err |-> NoErr]
Seg(res) ==
    IF res.state = "ok"
    THEN [state |-> "ok", a |-> PercentText(res.a), b |-> PercentText(res.b), err |-> NoErr]
    ELSE [state |-> "na", a |-> NoneN, b |-> NoneN, err |-> NoErr]
Tip(res) ==
    IF res.state = "ok"
    THEN [state |-> "ok", a |-> PercentText(res.a), b |-> PercentText(res.b), err |-> NoErr]
    ELSE [state |-> "na", a |-> NoneN, b |-> NoneN, err |-> res.err]

Known(res) == IF res.state = "ok" THEN {res.a, res.b} ELSE {}

\* the payload main builds: codexbar lines 172-215, limitsbar lines 283-351
Payload(t, cx, cl, now) ==
    IF t = "codexbar"
    THEN IF cx.state = "ok"
         THEN [text |-> [codex |-> Seg(cx), claude |-> NoSeg],
               tooltip |-> [codex |-> Tip(cx), claude |-> NoSeg, updated |-> now],
               class |-> _class_for(TopPercent(Known(cx))),
               percentage |-> IF TopPercent(Known(cx)) = NoneN THEN 0
                              ELSE int(TopPercent(Known(cx))),
               alt |-> "codex"]
         ELSE [text |-> [codex |-> Seg(cx), claude |-> NoSeg],
               tooltip |-> [codex |-> Tip(cx), claude |-> NoSeg, updated |-> NoneN],
               class |-> "error",
               percentage |-> 0,
               alt |-> "codex"]
    ELSE LET top == TopPercent(Known(cx) \cup Known(cl))
         IN  [text |-> [codex |-> Seg(cx), claude |-> Seg(cl)],
              tooltip |-> [codex |-> Tip(cx), claude |-> Tip(cl), updated |-> now],
              class |-> _class_for(top),
              percentage |-> IF top = NoneN THEN 0 ELSE int(top),
              alt |-> "ai-limits"]

\* _emit(payload)
Present ==
    /\ pc = "present"
    /\ emitted' = Append(emitted, Payload(tool, codex, claude, clock))
    /\ pc' = "done"
    /\ UNCHANGED <<tool, clock, authFile, authFile0, claudeFile, auth, refreshed, codex,
                   claude, log, checkedAt>>
    /\ UNCHANGED fsVars

\* time passes while the run waits for a request (urlopen blocks, up to its
\* timeout; nothing else in a run suspends)
Tick ==
    /\ pc \in {"codex_refresh", "codex_usage", "claude_usage"}
    /\ clock < Now0 + MaxTick
    /\ clock' = clock + 1
    /\ UNCHANGED <<tool, pc, authFile, authFile0, claudeFile, auth, refreshed, codex,
                   claude, log, emitted, checkedAt>>
    /\ UNCHANGED fsVars

----------------------------------------------------------------------------
(* Specifications *)

RunIdle ==
    /\ tool = "none"
    /\ pc = "idle"
    /\ clock = Now0
    /\ authFile = [kind |-> "missing", rec |-> NoRecord]
    /\ authFile0 = authFile
    /\ claudeFile = [kind |-> "missing", rec |-> NoClaudeRecord]
    /\ auth = NoRecord
    /\ refreshed = NoBody
    /\ codex = Pending
    /\ claude = Pending
    /\ log = <<>>
    /\ emitted = <<>>
    /\ checkedAt = [codex |-> -1, claude |-> -1]

FsIdle ==
    /\ inodes = [i \in Inodes |-> <<>>]
    /\ dir = [path |-> 1, tmp |-> 0]
    /\ wr = [w \in Writers |-> [pc |-> "off", fd |-> 0, off |-> 0]]
    /\ rd = [pc |-> "off", fd |-> 0, got |-> <<>>]
    /\ lens = [r \in 0 .. 2 |-> 1]
    /\ active = {}

\* a run of either entry point, over every state of the two credential files
Init ==
    /\ tool \in Tools
    /\ pc = "codex_read"
    /\ clock = Now0
    /\ authFile \in AuthFiles
    /\ authFile0 = authFile
    /\ claudeFile \in (IF tool = "limitsbar" THEN ClaudeFiles
                       ELSE {[kind |-> "missing", rec |-> NoClaudeRecord]})
    /\ auth = NoRecord
    /\ refreshed = NoBody
    /\ codex = Pending
    /\ claude = Pending
    /\ log = <<>>
    /\ emitted = <<>>
    /\ checkedAt = [codex |-> -1, claude |-> -1]
    /\ FsIdle

Next ==
    \/ ReadAuth
    \/ \E outcome \in RefreshOutcomes : RefreshTokens(outcome)
    \/ \E outcome \in UsageOutcomes : FetchUsage(outcome)
    \/ ClaudeRead
    \/ \E outcome \in ClaudeOutcomes : ClaudeFetch(outcome)
    \/ Present
    \/ Tick

Spec == Init /\ [][Next]_vars

\* _write_auth by the invocations in writers, with a reader of the path; the
\* credential file holds record 0, and a killed invocation may have left a
\* temporary file behind
InitFs(writers) ==
    /\ RunIdle
    /\ active = writers
    /\ lens \in {l \in [0 .. 2 -> 1 .. MaxChunks] : \A r \in Writers \ writers : l[r] = 1}
    /\ dir \in {[path |-> 1, tmp |-> t] : t \in {0, 2}}
    /\ inodes = [i \in Inodes |->
                    IF i = 1 THEN Rec(0)
                    ELSE IF i = 2 /\ dir["tmp"] = 2 THEN <<<<3, 1>>>>
                    ELSE <<>>]
    /\ wr = [w \in Writers |-> [pc |-> IF w \in writers THEN "start" ELSE "off",
                                fd |-> 0, off |-> 0]]
    /\ rd = [pc |-> "idle", fd |-> 0, got |-> <<>>]

NextFs ==
    \/ \E w \in Writers : Open(w)
    \/ \E w \in Writers : WriteChunk(w)
    \/ \E w \in Writers : Close(w)
    \/ \E w \in Writers : Replace(w)
    \/ \E w \in Writers : Crash(w)
    \/ ReaderOpen
    \/ ReaderRead
    \/ ReaderEOF

\* one invocation, which may be killed at any step
SpecWrite == InitFs({1}) /\ [][NextFs]_vars

\* two invocations at once
SpecConcurrent == InitFs({1, 2}) /\ [][NextFs]_vars

----------------------------------------------------------------------------
(* Properties *)

Terminated == pc \in {"done", "escaped"}
CodexOver == pc \notin {"idle", "codex_read", "codex_refresh", "codex_usage"}
ClaudeOver == pc \in {"present", "done", "escaped"}
Events(op) == {i \in DOMAIN log : log[i].op = op}
PayloadFields == {"text", "tooltip", "class", "percentage", "alt"}

\* C1: whatever the credential files and the servers do, a run of either entry
\* point ends with exactly one payload with the fields text, tooltip, class,
\* percentage and alt on standard output, and no exception leaves main.
C1_OnePayloadAlways ==
    Terminated =>
        /\ pc = "done"
        /\ Len(emitted) = 1
        /\ DOMAIN emitted[1] = PayloadFields

\* C2: in limitsbar, when one account's pipeline fails and the other's succeeds,
\* the payload still shows the succeeding account's two window values in text
\* and tooltip, and the failing account's segment carries that account's error.
C2_FailureIsIsolated ==
    (tool = "limitsbar" /\ Terminated) =>
        /\ (codex.state = "ok" /\ (claude.state = "fail" \/ pc = "escaped")) =>
              /\ Len(emitted) = 1
              /\ emitted[1].text.codex.state = "ok"
              /\ emitted[1].text.codex.a = PercentText(codex.a)
              /\ emitted[1].text.codex.b = PercentText(codex.b)
              /\ emitted[1].tooltip.codex = emitted[1].text.codex
              /\ emitted[1].text.claude.state = "na"
              /\ emitted[1].tooltip.claude.err = claude.err
        /\ (claude.state = "ok" /\ codex.state = "fail") =>
              /\ Len(emitted) = 1
              /\ emitted[1].text.claude.state = "ok"
              /\ emitted[1].text.claude.a = PercentText(claude.a)
              /\ emitted[1].text.claude.b = PercentText(claude.b)
              /\ emitted[1].tooltip.claude = emitted[1].text.claude
              /\ emitted[1].text.codex.state = "na"
              /\ emitted[1].tooltip.codex.err = codex.err

\* the content at the credential path is one whole record of those in rs
WholeRecordOf(rs, content) == \E r \in rs : content = Rec(r)

\* C3: while one invocation runs _write_auth, killed or not, the credential
\* path always holds the complete old record or the complete new one, and a
\* reader that opened the path reads one of the two to its end.
C3_NoPartialRecord ==
    /\ WholeRecordOf({0, 1}, inodes[dir["path"]])
    /\ rd.pc = "done" => WholeRecordOf({0, 1}, rd.got)

\* C3 witness: the writer was killed with the temporary file finished and not
\* yet renamed, and a reader has read the old record.
C3_KilledBeforeReplace ==
    /\ wr[1].pc = "crashed"
    /\ dir["tmp"] # 0
    /\ inodes[dir["tmp"]] = Rec(1)
    /\ rd.pc = "done"
    /\ rd.got = Rec(0)

FailedRefreshes == {i \in Events("refresh") : log[i].status \in {"neterr", "http"}}

\* C4: when the refresh request of a run fails (no connection or a non-2xx
\* answer), the run issues no second refresh request and no Codex usage
\* request, leaves the credential file as it was, and the Codex result is a
\* failure: codexbar emits the error payload (class error, percentage 0),
\* limitsbar a Codex segment "not available" with the error message.
C4_FailedRefreshFailsCodex ==
    FailedRefreshes # {} =>
        /\ Cardinality(Events("refresh")) = 1
        /\ Events("usage") = {}
        /\ Events("write") = {}
        /\ authFile = authFile0
        /\ codex.state = "fail"
        /\ codex.err.msg \in {"HTTP error", "Error", "Codex HTTP error", "Codex error"}
        /\ pc = "done" =>
              /\ Len(emitted) = 1
              /\ emitted[1].text.codex.state = "na"
              /\ emitted[1].tooltip.codex.err = codex.err
              /\ tool = "codexbar" =>
                    emitted[1].class = "error" /\ emitted[1].percentage = 0

\* C4 witness: limitsbar has emitted its payload after a refresh that came
\* back non-2xx, with Claude reporting normally.
C4_FailedRefreshReported ==
    /\ tool = "limitsbar"
    /\ pc = "done"
    /\ \E i \in FailedRefreshes : log[i].status = "http"
    /\ claude.state = "ok"

\* what the rest of C5 says of a run that has persisted a refreshed record:
\* last_refresh is the time of the write, the other fields are untouched, the
\* write comes before the usage request, which carries the persisted token
RefreshPersisted ==
    /\ authFile.kind = "object"
    /\ \A i \in Events("write") : authFile.rec.last_refresh = UtcStamp(log[i].at)
    /\ authFile.rec.account_id = authFile0.rec.account_id
    /\ authFile.rec.extra = authFile0.rec.extra
    /\ \A i \in Events("write"), j \in Events("usage") :
          i < j /\ log[j].token = authFile.rec.access_token
    /\ \A i \in Events("write"), j \in Events("refresh") : j < i

FromServerOrPrevious(field) ==
    authFile.rec[field] =
        IF refreshed[field] = Omitted THEN authFile0.rec[field] ELSE refreshed[field]

\* C5 as stated: after a successful refresh the persisted access_token,
\* refresh_token and id_token are the server's value for each field the server
\* returned and the previous value for each it omitted; last_refresh is the
\* current time, every other field is unchanged, and the record is persisted
\* before the usage request, which carries the persisted access token.
C5_ServerValueForEveryReturnedField ==
    Events("write") # {} =>
        /\ FromServerOrPrevious("access_token")
        /\ FromServerOrPrevious("refresh_token")
        /\ FromServerOrPrevious("id_token")
        /\ RefreshPersisted

\* C5 amended: as stated, except that id_token is the server's value only when
\* the server returned a non-empty one, and the previous value otherwise
\* (omitted or empty).
C5_IdTokenOnlyWhenNonEmpty ==
    Events("write") # {} =>
        /\ FromServerOrPrevious("access_token")
        /\ FromServerOrPrevious("refresh_token")
        /\ authFile.rec.id_token =
              IF refreshed.id_token \in {Omitted, ""} THEN authFile0.rec.id_token
              ELSE refreshed.id_token
        /\ RefreshPersisted

\* C5 witness: the server returned an empty id_token and omitted nothing else,
\* the record was persisted with the stored id_token, and the usage request
\* has gone out.
C5_EmptyIdTokenPersisted ==
    /\ Events("write") # {}
    /\ Events("usage") # {}
    /\ refreshed = RefreshBody("at1", "rt1", "")
    /\ authFile.rec.id_token = "it0"
    /\ authFile.rec.access_token = "at1"

\* stale, in the words of C6: no timestamp recorded, one that cannot be parsed,
\* or more than 8 days between it and now
StaleAt(stamp, now) ==
    \/ stamp.kind \in {"absent", "bad"}
    \/ stamp.kind = "utc" /\ now - stamp.t > Days(8)

ClassOfMax(m) ==
    IF m = NoneN THEN "unknown"
    ELSE IF m >= 9000 THEN "critical"
    ELSE IF m >= 7000 THEN "warn"
    ELSE "ok"

\* C7: the emitted class is error when every pipeline of the run failed, and
\* otherwise critical, warn, ok or unknown by the maximum of the known window
\* percentages (>= 90, >= 70, below, none known).
C7_ClassOfOutcome ==
    pc = "done" =>
        emitted[1].class =
            IF codex.state = "fail" /\ (tool = "limitsbar" => claude.state = "fail")
            THEN "error"
            ELSE ClassOfMax(TopPercent(Known(codex) \cup Known(claude)))

\* C8: the percentage of every emitted payload is an integer from 0 to 100,
\* whatever numbers the usage endpoints return.
C8_PercentageInRange ==
    \A i \in DOMAIN emitted : emitted[i].percentage \in 0 .. 100

\* the first failing local check of C9, by its message; "" when all pass
FirstFailingCheck(cred, now) ==
    IF cred.accessToken = NoneS THEN "Claude access token missing"
    ELSE IF "user:profile" \notin cred.scopes THEN "Claude token missing user:profile scope"
    ELSE IF cred.expiresAt # NoneN /\ cred.expiresAt > 0 /\ cred.expiresAt <= now * 1000
    THEN "Claude token expired (run claude login)"
    ELSE ""

\* C9: the Claude pipeline checks token presence, then the user:profile scope,
\* then expiry, before any request: when one fails no Claude usage request is
\* issued and the result is the message of the first failing check; when all
\* pass exactly one usage request is issued.
C9_LocalChecksBeforeRequest ==
    (claudeFile.kind = "object" /\ pc \in {"claude_usage", "present", "done", "escaped"}) =>
        LET failing == FirstFailingCheck(claudeFile.rec, checkedAt.claude)
        IN  IF failing # ""
            THEN /\ Events("claude_usage") = {}
                 /\ claude.state = "fail"
                 /\ claude.err.msg = failing
                 /\ pc # "claude_usage"
            ELSE /\ pc = "claude_usage" <=> Events("claude_usage") = {}
                 /\ ClaudeOver => Cardinality(Events("claude_usage")) = 1

\* C9 witness: the token lacks the scope and has expired as well; the run is
\* over and Claude reports the missing scope.
C9_ScopeReportedBeforeExpiry ==
    /\ pc = "done"
    /\ claudeFile.kind = "object"
    /\ claudeFile.rec.accessToken = "ct"
    /\ "user:profile" \notin claudeFile.rec.scopes
    /\ claudeFile.rec.expiresAt = Now0 * 1000
    /\ claude.err.msg = "Claude token missing user:profile scope"

\* C10: with two invocations writing at once, under every interleaving the
\* credential path holds one complete record: the original, or one invocation's.
C10_ConcurrentWritersKeepPathWhole ==
    \E r \in {0} \cup active : inodes[dir["path"]] = Rec(r)

====
